---------------------------- MODULE Spec2Model ----------------------------
(***************************************************************************)
(* A model of the numerology core of Arquetipo_2.py: name normalisation,   *)
(* letter mapping, the two digit-sum reducers, the date analyser, the      *)
(* template lookup and the report assembler.                               *)
(*                                                                         *)
(* Strings are sequences of one-character strings.  Every error of the     *)
(* source is a Python ValueError; the model names each raise site by the   *)
(* error kind it stands for:                                               *)
(*   InvalidInput  - Arquetipo_2.py lines 16 and 142                       *)
(*   InvalidDate   - Arquetipo_2.py line 96                                *)
(*   InvalidNumber - Arquetipo_2.py lines 49 and 66                        *)
(***************************************************************************)
EXTENDS Integers, Sequences, FiniteSets, TLC

VARIABLES
    pc,                 \* position of the running call
    fn,                 \* the function that was called
    entrada,            \* the arguments of the call
    numero,             \* the local variable `numero` of a reducer loop
    resultado,          \* what the call returned or raised
    plantilla,          \* the local `plantilla` of generar_informe_kabalista
    PLANTILLAS_TIKKUN,  \* the module-level template table (its keys)
    memo,               \* an earlier call of the session, with its result
    programa,           \* the script that runs as the main program
    importada,          \* Arketipo_Grafico: the import of the core succeeded
    proceso,            \* the main program: running, ended, or died of an error
    txt,                \* ArquetipoGUI.txt: the texts inserted in the display
    status_var,         \* ArquetipoGUI.status_var
    mensaje,            \* the messagebox dialog the last handler showed
    stdout,             \* what the console program printed
    portapapeles,       \* the clipboard of the window system
    archivo             \* the file the save dialog names, once it is written

\* the state of the presentation layer
presentacion ==
    <<programa, importada, proceso, txt, status_var, mensaje, stdout,
      portapapeles, archivo>>

vars ==
    <<pc, fn, entrada, numero, resultado, plantilla, PLANTILLAS_TIKKUN, memo,
      presentacion>>

(***************************************************************************)
(* Bounds of the model.                                                    *)
(***************************************************************************)
MaxNumero == 120
MaxNegativo == 2
MaxDia == 32
MaxMes == 13
MaxLenNombre == 3
MaxFaltan == 2

Nada == [tipo |-> "nada"]

\* no main program runs: the functions of the core are called directly
SinPresentacion ==
    /\ programa = "ninguno"
    /\ importada = TRUE
    /\ proceso = "ninguno"
    /\ txt = <<>>
    /\ status_var = "ninguno"
    /\ mensaje = Nada
    /\ stdout = <<>>
    /\ portapapeles = Nada
    /\ archivo = Nada

\* Op(v) with v evaluated once: a local variable of the source holds a value
Con(v, Op(_)) == CHOOSE r \in {Op(x) : x \in {v}} : TRUE

Err(kind) == [tipo |-> kind]

Ok(v) == [tipo |-> "ok", valor |-> v]

(***************************************************************************)
(* Decimal text of integers: str(n) and int(c).                            *)
(***************************************************************************)
DigitChars == <<"0", "1", "2", "3", "4", "5", "6", "7", "8", "9">>

EsDigito(c) == \E i \in 1..10 : DigitChars[i] = c

\* int(c) for a one-character decimal string
IntDeChar(c) == (CHOOSE i \in 1..10 : DigitChars[i] = c) - 1

RECURSIVE StrNat(_)
\* str(n) for n >= 0
StrNat(n) ==
    IF n < 10 THEN <<DigitChars[n + 1]>>
    ELSE StrNat(n \div 10) \o <<DigitChars[(n % 10) + 1]>>

RECURSIVE IntDeStr(_)
\* int(s) for a non-empty string of decimal digits
IntDeStr(s) ==
    IF Len(s) = 0 THEN 0
    ELSE 10 * IntDeStr(SubSeq(s, 1, Len(s) - 1)) + IntDeChar(s[Len(s)])

RECURSIVE SumaCaracteres(_)
\* suma = 0; for digito in str(numero): suma += int(digito)
SumaCaracteres(s) ==
    IF Len(s) = 0 THEN 0
    ELSE IntDeChar(Head(s)) + SumaCaracteres(Tail(s))

(***************************************************************************)
(* reducir_numero and reducir_simple.                                      *)
(***************************************************************************)
MAESTROS == {11, 22, 33}

\* a faulty variant of CondNumero: `numero > 10` in place of `numero >= 10`
CondNumeroMayorEstricto(n) == n > 10 /\ n \notin MAESTROS

\* the guard of reducir_numero's while loop
CondNumero(n) == n >= 10 /\ n \notin MAESTROS

\* the guard of reducir_simple's while loop
CondSimple(n) == n >= 10

\* a faulty variant of PasoNumero: `suma = int(digito)` in place of `suma +=`
PasoNumeroUltimoDigito(n) == n % 10

\* the body of reducir_numero's while loop
PasoNumero(n) == SumaCaracteres(StrNat(n))

\* the body of reducir_simple's while loop
PasoSimple(n) == SumaCaracteres(StrNat(n))

RECURSIVE BucleNumero(_)
BucleNumero(n) == IF CondNumero(n) THEN BucleNumero(PasoNumero(n)) ELSE n

RECURSIVE BucleSimple(_)
BucleSimple(n) == IF CondSimple(n) THEN BucleSimple(PasoSimple(n)) ELSE n

\* reducir_numero(numero) as one call
reducir_numero(n) == IF n <= 0 THEN Err("InvalidNumber") ELSE Ok(BucleNumero(n))

\* reducir_simple(numero) as one call
reducir_simple(n) == IF n <= 0 THEN Err("InvalidNumber") ELSE Ok(BucleSimple(n))

(***************************************************************************)
(* Characters.  A character outside ASCII is written by its name:          *)
(*   "i_acute"  U+00ED, decomposes (NFKD) to "i" + "acute"                 *)
(*   "n_tilde"  U+00F1, decomposes to "n" + "tilde"                        *)
(*   "fi_lig"   U+FB01, decomposes (compatibility) to "f" + "i"            *)
(*   "acute", "tilde"  the combining marks U+0301, U+0303                  *)
(*   "eszett"   U+00DF, a letter with no decomposition                     *)
(*   "dotless_i" U+0131, no decomposition; its uppercase is "I"            *)
(*   "long_s"   U+017F, decomposes (compatibility) to "s"; uppercase "S"   *)
(* The uppercase of a character outside ASCII is written the same way:     *)
(* "I_acute" U+00CD, "N_tilde" U+00D1, and the two-character strings "SS"  *)
(* and "FI" that str.upper() gives for U+00DF and U+FB01.                  *)
(***************************************************************************)
Mayusculas ==
    <<"A", "B", "C", "D", "E", "F", "G", "H", "I", "J", "K", "L", "M",
      "N", "O", "P", "Q", "R", "S", "T", "U", "V", "W", "X", "Y", "Z">>

Minusculas ==
    <<"a", "b", "c", "d", "e", "f", "g", "h", "i", "j", "k", "l", "m",
      "n", "o", "p", "q", "r", "s", "t", "u", "v", "w", "x", "y", "z">>

EsMayuscula(c) == \E i \in 1..26 : Mayusculas[i] = c

EsMinuscula(c) == \E i \in 1..26 : Minusculas[i] = c

\* the character class [A-Za-z] of the regular expression
EsLetraAscii(c) == EsMayuscula(c) \/ EsMinuscula(c)

\* str.upper() on one character
Upper(c) ==
    IF EsMinuscula(c)
    THEN Mayusculas[CHOOSE i \in 1..26 : Minusculas[i] = c]
    ELSE CASE c = "dotless_i" -> "I"
           [] c = "long_s" -> "S"
           [] c = "i_acute" -> "I_acute"
           [] c = "n_tilde" -> "N_tilde"
           [] c = "eszett" -> "SS"
           [] c = "fi_lig" -> "FI"
           [] OTHER -> c

\* unicodedata.normalize("NFKD", c) for one character
NFKD(c) ==
    CASE c = "i_acute" -> <<"i", "acute">>
      [] c = "n_tilde" -> <<"n", "tilde">>
      [] c = "fi_lig" -> <<"f", "i">>
      [] c = "long_s" -> <<"s">>
      [] OTHER -> <<c>>

\* unicodedata.combining(c) # 0
Combining(c) == c \in {"acute", "tilde"}

RECURSIVE NFKDCadena(_)
\* unicodedata.normalize("NFKD", nombre)
NFKDCadena(s) ==
    IF Len(s) = 0 THEN <<>> ELSE NFKD(Head(s)) \o NFKDCadena(Tail(s))

NoCombinante(c) == ~Combining(c)

\* str.upper() on a string
UpperCadena(s) == [i \in 1..Len(s) |-> Upper(s[i])]

\* a Python value that is a str, and one that is not
Texto(s) == [tipo |-> "str", chars |-> s]

NoTexto == [tipo |-> "int", chars |-> <<>>]

\* a faulty variant of normalizar_nombre: the final .upper() is missing
normalizar_nombre_SinUpper(nombre) ==
    IF nombre.tipo # "str" THEN Err("InvalidInput")
    ELSE Ok(SelectSeq(SelectSeq(NFKDCadena(nombre.chars), NoCombinante),
                      EsLetraAscii))

\* a faulty variant of normalizar_nombre: an empty result raises
normalizar_nombre_VacioFalla(nombre) ==
    IF nombre.tipo # "str" THEN Err("InvalidInput")
    ELSE LET solo_letras ==
                 SelectSeq(SelectSeq(NFKDCadena(nombre.chars), NoCombinante),
                           EsLetraAscii)
         IN  IF solo_letras = <<>> THEN Err("InvalidInput")
             ELSE Ok(UpperCadena(solo_letras))

normalizar_nombre(nombre) ==
    IF nombre.tipo # "str" THEN Err("InvalidInput")
    ELSE LET nfkd_form == NFKDCadena(nombre.chars)
             solo_ascii == SelectSeq(nfkd_form, NoCombinante)
             solo_letras == SelectSeq(solo_ascii, EsLetraAscii)
         IN  Ok(UpperCadena(solo_letras))

\* a faulty variant of mapa: the entry of "A" is missing
mapa_SinA ==
    [J |-> 1, S |-> 1,
     B |-> 2, K |-> 2, T |-> 2,
     C |-> 3, L |-> 3, U |-> 3,
     D |-> 4, M |-> 4, V |-> 4,
     E |-> 5, N |-> 5, W |-> 5,
     F |-> 6, O |-> 6, X |-> 6,
     G |-> 7, P |-> 7, Y |-> 7,
     H |-> 8, Q |-> 8, Z |-> 8,
     I |-> 9, R |-> 9]

\* the dictionary `mapa` of letra_a_numero
mapa ==
    [A |-> 1, J |-> 1, S |-> 1,
     B |-> 2, K |-> 2, T |-> 2,
     C |-> 3, L |-> 3, U |-> 3,
     D |-> 4, M |-> 4, V |-> 4,
     E |-> 5, N |-> 5, W |-> 5,
     F |-> 6, O |-> 6, X |-> 6,
     G |-> 7, P |-> 7, Y |-> 7,
     H |-> 8, Q |-> 8, Z |-> 8,
     I |-> 9, R |-> 9]

\* mapa.get(letra.upper(), 0)
letra_a_numero(letra) ==
    IF Upper(letra) \in DOMAIN mapa THEN mapa[Upper(letra)] ELSE 0

\* a faulty variant of SumaLetras: `suma = ...` in place of `suma += ...`
SumaLetrasUltima(s) ==
    IF Len(s) = 0 THEN 0 ELSE letra_a_numero(s[Len(s)])

RECURSIVE SumaLetras(_)
\* suma = 0; for letra in nombre_normalizado: suma += letra_a_numero(letra)
SumaLetras(s) ==
    IF Len(s) = 0 THEN 0 ELSE letra_a_numero(Head(s)) + SumaLetras(Tail(s))

\* a faulty variant of numero_desde_nombre: the check for an empty name is missing
numero_desde_nombre_SinGuarda(nombre) ==
    LET nombre_normalizado == normalizar_nombre(nombre)
    IN  IF nombre_normalizado.tipo # "ok" THEN nombre_normalizado
        ELSE reducir_numero(SumaLetras(nombre_normalizado.valor))

numero_desde_nombre(nombre) ==
    LET nombre_normalizado == normalizar_nombre(nombre)
    IN  IF nombre_normalizado.tipo # "ok" THEN nombre_normalizado
        ELSE IF nombre_normalizado.valor = <<>> THEN Err("InvalidInput")
        ELSE reducir_numero(SumaLetras(nombre_normalizado.valor))

(***************************************************************************)
(* datetime.strptime(fecha_str.strip(), fmt): the regular expression that  *)
(* _strptime builds for a format, matched from the start of the string     *)
(* with ordered alternatives and backtracking, then the check that nothing *)
(* is left over, then datetime's validation of the calendar date.          *)
(***************************************************************************)
EsEspacio(c) == c = " "

RECURSIVE LStrip(_)
LStrip(s) ==
    IF Len(s) > 0 /\ EsEspacio(Head(s)) THEN LStrip(Tail(s)) ELSE s

RECURSIVE RStrip(_)
RStrip(s) ==
    IF Len(s) > 0 /\ EsEspacio(s[Len(s)])
    THEN RStrip(SubSeq(s, 1, Len(s) - 1))
    ELSE s

\* str.strip()
Strip(s) == RStrip(LStrip(s))

Digitos09 == {"0", "1", "2", "3", "4", "5", "6", "7", "8", "9"}

Digitos19 == Digitos09 \ {"0"}

\* the alternatives of one item of a format, in the order the regular
\* expression tries them; an alternative is a sequence of character classes
Alternativas(item) ==
    CASE item = "d" ->
           \* 3[0-1]|[1-2]\d|0[1-9]|[1-9]| [1-9]
           << <<{"3"}, {"0", "1"}>>,
              <<{"1", "2"}, Digitos09>>,
              <<{"0"}, Digitos19>>,
              <<Digitos19>>,
              <<{" "}, Digitos19>> >>
      [] item = "m" ->
           \* 1[0-2]|0[1-9]|[1-9]
           << <<{"1"}, {"0", "1", "2"}>>,
              <<{"0"}, Digitos19>>,
              <<Digitos19>> >>
      [] item = "Y" ->
           \* \d\d\d\d
           << <<Digitos09, Digitos09, Digitos09, Digitos09>> >>
      [] OTHER ->
           \* a literal character of the format
           << <<{item}>> >>

AltCoincide(s, i, alt) ==
    /\ i + Len(alt) - 1 <= Len(s)
    /\ \A j \in 1..Len(alt) : s[i + j - 1] \in alt[j]

RECURSIVE Coincide(_, _, _, _)
\* re.match of the items k.. of fmt at position i of s: the first
\* alternative, in order, after which the rest of the format matches
Coincide(s, i, fmt, k) ==
    IF k > Len(fmt) THEN [ok |-> TRUE, fin |-> i, grupos |-> <<>>]
    ELSE LET alts == Alternativas(fmt[k])
             buenos == {a \in 1..Len(alts) :
                           /\ AltCoincide(s, i, alts[a])
                           /\ Coincide(s, i + Len(alts[a]), fmt, k + 1).ok}
         IN  IF buenos = {} THEN [ok |-> FALSE, fin |-> i, grupos |-> <<>>]
             ELSE LET a == CHOOSE x \in buenos : \A z \in buenos : x <= z
                      n == Len(alts[a])
                      resto == Coincide(s, i + n, fmt, k + 1)
                  IN  [ok |-> TRUE, fin |-> resto.fin,
                       grupos |-> <<SubSeq(s, i, i + n - 1)>> \o resto.grupos]

\* the text the group of item `item` matched
Grupo(found, fmt, item) ==
    found.grupos[CHOOSE k \in 1..Len(fmt) : fmt[k] = item]

\* a faulty variant of EsBisiesto: every fourth year is a leap year
EsBisiestoCadaCuatro(y) == y % 4 = 0

\* calendar.isleap
EsBisiesto(y) == y % 4 = 0 /\ (y % 100 # 0 \/ y % 400 = 0)

\* the days of month m of year y
DiasDelMes(y, m) ==
    IF m = 2 THEN (IF EsBisiesto(y) THEN 29 ELSE 28)
    ELSE IF m \in {4, 6, 9, 11} THEN 30 ELSE 31

\* datetime.date(year, month, day) raises no ValueError
FechaValida(y, m, d) ==
    /\ y >= 1 /\ y <= 9999
    /\ m >= 1 /\ m <= 12
    /\ d >= 1 /\ d <= DiasDelMes(y, m)

\* datetime.strptime(data_string, fmt): the date, or ValueError
strptime(data_string, fmt) ==
    LET found == Coincide(data_string, 1, fmt, 1)
    IN  IF ~found.ok THEN Err("ValueError")
        ELSE IF found.fin # Len(data_string) + 1 THEN Err("ValueError")
        ELSE LET year == IntDeStr(Grupo(found, fmt, "Y"))
                 month == IntDeStr(Grupo(found, fmt, "m"))
                 day == IntDeStr(Strip(Grupo(found, fmt, "d")))
             IN  IF FechaValida(year, month, day)
                 THEN Ok([day |-> day, month |-> month, year |-> year])
                 ELSE Err("ValueError")

\* a faulty variant of formatos_posibles: "%Y-%d-%m" in place of "%Y-%m-%d"
formatos_posibles_DiaMes ==
    << <<"d", "/", "m", "/", "Y">>, <<"Y", "-", "d", "-", "m">> >>

\* ["%d/%m/%Y", "%Y-%m-%d"]
formatos_posibles ==
    << <<"d", "/", "m", "/", "Y">>, <<"Y", "-", "m", "-", "d">> >>

RECURSIVE PrimerFormato(_, _)
\* the for loop over formatos_posibles: the first format that parses
PrimerFormato(texto, k) ==
    IF k > Len(formatos_posibles) THEN Nada
    ELSE LET r == strptime(texto, formatos_posibles[k])
         IN  IF r.tipo = "ok" THEN r.valor ELSE PrimerFormato(texto, k + 1)

\* a faulty variant of InfoDeFecha: reducir_simple in place of reducir_numero
InfoDeFecha_SinMaestros(fecha_valida) ==
    LET dia == fecha_valida.day
        mes == fecha_valida.month
        ano == fecha_valida.year
        suma_ano == SumaCaracteres(StrNat(ano))
        base_total == dia + mes + suma_ano
        numero_vida == reducir_simple(base_total)
    IN  IF numero_vida.tipo # "ok" THEN numero_vida
        ELSE Ok([dia |-> dia, mes |-> mes, ano |-> ano,
                 suma_ano |-> suma_ano,
                 base_total |-> base_total,
                 numero_vida |-> numero_vida.valor,
                 base_simple |-> numero_vida.valor,
                 representacion_camino |-> StrNat(numero_vida.valor)])

\* the DateInfo computed from a parsed date (lines 98 to 124)
InfoDeFecha(fecha_valida) ==
    LET dia == fecha_valida.day
        mes == fecha_valida.month
        ano == fecha_valida.year
        suma_ano == SumaCaracteres(StrNat(ano))
        base_total == dia + mes + suma_ano
        numero_vida == reducir_numero(base_total)
    IN  IF numero_vida.tipo # "ok" THEN numero_vida
        ELSE LET base_simple == reducir_simple(numero_vida.valor)
             IN  IF base_simple.tipo # "ok" THEN base_simple
                 ELSE Ok([dia |-> dia, mes |-> mes, ano |-> ano,
                          suma_ano |-> suma_ano,
                          base_total |-> base_total,
                          numero_vida |-> numero_vida.valor,
                          base_simple |-> base_simple.valor,
                          representacion_camino |->
                             IF numero_vida.valor \in MAESTROS
                             THEN StrNat(numero_vida.valor) \o <<"/">>
                                      \o StrNat(base_simple.valor)
                             ELSE StrNat(numero_vida.valor)])

\* a faulty variant of analizar_fecha_numerologia: fecha_str is not stripped
analizar_fecha_numerologia_SinStrip(fecha_str) ==
    LET fecha_valida == PrimerFormato(fecha_str, 1)
    IN  IF fecha_valida = Nada THEN Err("InvalidDate")
        ELSE InfoDeFecha(fecha_valida)

analizar_fecha_numerologia(fecha_str) ==
    LET fecha_valida == PrimerFormato(Strip(fecha_str), 1)
    IN  IF fecha_valida = Nada THEN Err("InvalidDate")
        ELSE InfoDeFecha(fecha_valida)

(***************************************************************************)
(* The static tables.  A text of a table is written by its place in the    *)
(* table: <<"perfeccionar", 4>> is the correction text of archetype 4,     *)
(* <<"patrones", 11, 2>> the second pattern of template 11.                *)
(***************************************************************************)
Claves == {1, 2, 3, 4, 5, 6, 7, 8, 9, 11, 22, 33}

\* a faulty variant of obtener_energia_basica: reducir_numero in place of
\* reducir_simple
obtener_energia_basica_ConMaestros(n) ==
    LET reducido == reducir_numero(n)
    IN  IF reducido.tipo # "ok" THEN reducido
        ELSE Ok(<<reducido.valor,
                  IF reducido.valor \in 1..9
                  THEN <<"energia", reducido.valor>>
                  ELSE <<"energia no definida">> >>)

\* obtener_energia_basica(numero): (reducido, description), or the error
obtener_energia_basica(n) ==
    LET reducido == reducir_simple(n)
    IN  IF reducido.tipo # "ok" THEN reducido
        ELSE Ok(<<reducido.valor,
                  IF reducido.valor \in 1..9
                  THEN <<"energia", reducido.valor>>
                  ELSE <<"energia no definida">> >>)

\* a faulty variant of arquetipo_desde_numero: the dictionary has no entry
\* for the master numbers
arquetipo_desde_numero_SinMaestros(n) ==
    IF n \in 1..9
    THEN [nombre |-> <<"nombre", n>>,
          descripcion |-> <<"descripcion", n>>,
          perfeccionar |-> <<"perfeccionar", n>>]
    ELSE [nombre |-> <<"Arquetipo no definido">>,
          descripcion |-> <<"sin arquetipo configurado">>,
          perfeccionar |-> <<"sin tikkun configurado">>]

\* arquetipo_desde_numero(numero)
arquetipo_desde_numero(n) ==
    IF n \in Claves
    THEN [nombre |-> <<"nombre", n>>,
          descripcion |-> <<"descripcion", n>>,
          perfeccionar |-> <<"perfeccionar", n>>]
    ELSE [nombre |-> <<"Arquetipo no definido">>,
          descripcion |-> <<"sin arquetipo configurado">>,
          perfeccionar |-> <<"sin tikkun configurado">>]

\* the list of template n under `seccion`, with its length in the source
Frases(seccion, n, largo) == [i \in 1..largo |-> <<seccion, n, i>>]

\* one entry of PLANTILLAS_TIKKUN; entry 11 has the longer lists
PlantillaFuente(n) ==
    IF n = 11
    THEN [tema_central |-> Frases("tema_central", n, 4),
          patrones |-> Frases("patrones", n, 5),
          rectificacion_frases |-> Frases("rectificacion_frases", n, 4),
          claves |-> Frases("claves", n, 6),
          preguntas |-> Frases("preguntas", n, 5)]
    ELSE [tema_central |-> Frases("tema_central", n, 2),
          patrones |-> Frases("patrones", n, 3),
          rectificacion_frases |-> Frases("rectificacion_frases", n, 2),
          claves |-> Frases("claves", n, 3),
          preguntas |-> Frases("preguntas", n, 3)]

\* PLANTILLAS_TIKKUN as the module defines it
PlantillasFuente == [n \in Claves |-> PlantillaFuente(n)]

\* MESES_NOMBRE
MESES_NOMBRE ==
    <<"enero", "febrero", "marzo", "abril", "mayo", "junio", "julio",
      "agosto", "septiembre", "octubre", "noviembre", "diciembre">>

\* MESES_NOMBRE.get(mes, f"mes {mes}")
NombreMes(mes) ==
    IF mes \in 1..12 THEN <<MESES_NOMBRE[mes]>> ELSE <<"mes", mes>>

\* dict.get(k): the entry, or None
Get(tabla, k) == IF k \in DOMAIN tabla THEN tabla[k] ELSE Nada

\* a faulty variant of PlantillaSintetica: the correction text in tema_central only
PlantillaSinteticaSoloTema(arq_vida) ==
    [tema_central |-> <<arq_vida.perfeccionar>>,
     patrones |-> <<>>,
     rectificacion_frases |-> <<>>,
     claves |-> <<>>,
     preguntas |-> <<>>]

\* the template built when the table has no entry (lines 695 to 701)
PlantillaSintetica(arq_vida) ==
    [tema_central |-> <<arq_vida.perfeccionar>>,
     patrones |-> <<>>,
     rectificacion_frases |-> <<arq_vida.perfeccionar>>,
     claves |-> <<>>,
     preguntas |-> <<>>]

\* a faulty variant of ResolverPlantilla: the simple digit is tried first
ResolverPlantillaSimplePrimero(tabla, info_fecha, arq_vida) ==
    LET primera == Get(tabla, info_fecha.base_simple)
        segunda == IF primera = Nada
                   THEN Get(tabla, info_fecha.numero_vida)
                   ELSE primera
    IN  IF segunda = Nada THEN PlantillaSintetica(arq_vida) ELSE segunda

\* the template lookup of generar_informe_kabalista (lines 690 to 701)
ResolverPlantilla(tabla, info_fecha, arq_vida) ==
    LET primera == Get(tabla, info_fecha.numero_vida)
        segunda == IF primera = Nada
                   THEN Get(tabla, info_fecha.base_simple)
                   ELSE primera
    IN  IF segunda = Nada THEN PlantillaSintetica(arq_vida) ELSE segunda

\* a faulty variant of calcular_arquetipo: the name first, then the date
calcular_arquetipo_NombrePrimero(nombre, fecha_nacimiento) ==
    Con(numero_desde_nombre(nombre), LAMBDA num_nombre :
        IF num_nombre.tipo # "ok" THEN num_nombre
        ELSE Con(analizar_fecha_numerologia(fecha_nacimiento), LAMBDA info_fecha :
                 IF info_fecha.tipo # "ok" THEN info_fecha
                 ELSE Ok([nombre_input |-> nombre,
                          fecha_input |-> fecha_nacimiento,
                          info_fecha |-> info_fecha.valor,
                          numero_vida |-> info_fecha.valor.numero_vida,
                          arquetipo_vida |->
                              arquetipo_desde_numero(info_fecha.valor.numero_vida),
                          numero_nombre |-> num_nombre.valor,
                          arquetipo_nombre |->
                              arquetipo_desde_numero(num_nombre.valor)])))

\* calcular_arquetipo(nombre, fecha_nacimiento): the date first, then the name
calcular_arquetipo(nombre, fecha_nacimiento) ==
    Con(analizar_fecha_numerologia(fecha_nacimiento), LAMBDA info_fecha :
        IF info_fecha.tipo # "ok" THEN info_fecha
        ELSE Con(numero_desde_nombre(nombre), LAMBDA num_nombre :
                 IF num_nombre.tipo # "ok" THEN num_nombre
                 ELSE Ok([nombre_input |-> nombre,
                          fecha_input |-> fecha_nacimiento,
                          info_fecha |-> info_fecha.valor,
                          numero_vida |-> info_fecha.valor.numero_vida,
                          arquetipo_vida |->
                              arquetipo_desde_numero(info_fecha.valor.numero_vida),
                          numero_nombre |-> num_nombre.valor,
                          arquetipo_nombre |->
                              arquetipo_desde_numero(num_nombre.valor)])))

\* for frase in lista: lineas.append(f"* {frase}")
Vinetas(lista) == [i \in 1..Len(lista) |-> <<"*", lista[i]>>]

\* a faulty variant of SeccionOpcional: the header and the empty line are
\* written also when the list is empty
SeccionSiempre(titulo, lista) ==
    <<  <<titulo>> >> \o Vinetas(lista) \o << <<>> >>

\* a section that is left out when its list is empty
SeccionOpcional(titulo, lista) ==
    IF Len(lista) = 0 THEN <<>>
    ELSE <<  <<titulo>> >> \o Vinetas(lista) \o << <<>> >>

\* the lines of the report (lines 705 to 788); <<>> is an empty line
Lineas(datos, p, e_dia, e_mes, e_ano) ==
    LET f == datos.info_fecha
        arq_vida == datos.arquetipo_vida
        arq_nombre == datos.arquetipo_nombre
    IN  << <<"Voy directo al grano usando tu fecha", f.dia, NombreMes(f.mes), f.ano>>,
           <<>>,
           <<"tu fecha habla de un camino", f.representacion_camino>>,
           <<"Ese camino se apoya en tu dia y tu mes">>,
           <<>>,
           <<"Suma basica de la fecha">>,
           <<"*", "Dia del nacimiento", f.dia>>,
           <<"*", "Mes del nacimiento", f.mes>>,
           <<"*", "Ano de nacimiento", f.ano, f.suma_ano>>,
           <<"Total", f.dia, f.mes, f.suma_ano, f.base_total,
             f.representacion_camino>>,
           <<>>,
           <<"Energias que sostienen tu camino de alma">>,
           <<"*", "Dia", f.dia, e_dia[1], e_dia[2]>>,
           <<"*", "Mes", f.mes, e_mes[1], e_mes[2]>>,
           <<"*", "Ano", f.ano, f.suma_ano, e_ano[1], e_ano[2]>>,
           <<>>,
           <<"Arquetipo central segun tu numero de vida">>,
           <<"*", "Arquetipo kabalista de vida", arq_vida.nombre>>,
           <<"*", "Descripcion general", arq_vida.descripcion>>,
           <<>>,
           <<"Tema central de tu tikkun">> >>
        \o Vinetas(p.tema_central)
        \o << <<>> >>
        \o SeccionOpcional("Patrones que tienden a repetirse", p.patrones)
        \o << <<"Lo que vienes a rectificar">> >>
        \o Vinetas(p.rectificacion_frases)
        \o << <<"*", "En resumen, tu tikkun de fondo es", arq_vida.perfeccionar>>,
              <<>> >>
        \o SeccionOpcional("Claves de sanacion y evolucion", p.claves)
        \o SeccionOpcional("Preguntas para trabajar este proceso", p.preguntas)
        \o << <<"Aportacion de tu nombre">>,
              <<"*", "Tu nombre vibra en el numero", datos.numero_nombre,
                arq_nombre.nombre>>,
              <<"*", "Descripcion", arq_nombre.descripcion>>,
              <<"*", "Tikkun asociado", arq_nombre.perfeccionar>>,
              <<>>,
              <<"la fecha muestra el plan y el nombre el estilo">> >>

\* lines 686 to 788, once calcular_arquetipo has returned `datos`
InformeDeDatos(datos, tabla) ==
    Con(<<obtener_energia_basica(datos.info_fecha.dia),
          obtener_energia_basica(datos.info_fecha.mes),
          obtener_energia_basica(datos.info_fecha.suma_ano)>>, LAMBDA e :
        IF e[1].tipo # "ok" THEN [resultado |-> e[1], plantilla |-> Nada]
        ELSE IF e[2].tipo # "ok" THEN [resultado |-> e[2], plantilla |-> Nada]
        ELSE IF e[3].tipo # "ok" THEN [resultado |-> e[3], plantilla |-> Nada]
        ELSE Con(ResolverPlantilla(tabla, datos.info_fecha, datos.arquetipo_vida),
                 LAMBDA p :
                     [resultado |-> Ok(Lineas(datos, p, e[1].valor, e[2].valor,
                                              e[3].valor)),
                      plantilla |-> p]))

\* the state of generar_informe_kabalista at its end: what it returns or
\* raises, and its local `plantilla`
generar_informe_kabalista(nombre, fecha_nacimiento, tabla) ==
    Con(calcular_arquetipo(nombre, fecha_nacimiento), LAMBDA datos :
        IF datos.tipo # "ok" THEN [resultado |-> datos, plantilla |-> Nada]
        ELSE InformeDeDatos(datos.valor, tabla))

RECURSIVE HastaNoPositivo(_)
\* the calls made of a list of calls: a reducer raises on numero <= 0, and
\* no call follows the one that raised
HastaNoPositivo(args) ==
    IF Len(args) = 0 THEN <<>>
    ELSE IF Head(args) <= 0 THEN <<Head(args)>>
    ELSE <<Head(args)>> \o HastaNoPositivo(Tail(args))

\* the arguments reducir_numero and reducir_simple receive during
\* generar_informe_kabalista(nombre, fecha_nacimiento), in the order of the
\* calls: base_total, numero_vida, the letter sum, dia, mes, suma_ano
ArgumentosReducir(nombre, fecha_nacimiento) ==
    LET fecha_valida == PrimerFormato(Strip(fecha_nacimiento), 1)
    IN  IF fecha_valida = Nada THEN <<>>
        ELSE LET suma_ano == SumaCaracteres(StrNat(fecha_valida.year))
                 base_total == fecha_valida.day + fecha_valida.month + suma_ano
                 de_fecha == <<base_total, BucleNumero(base_total)>>
                 nombre_normalizado == normalizar_nombre(nombre)
             IN  HastaNoPositivo(
                     IF \/ nombre_normalizado.tipo # "ok"
                        \/ nombre_normalizado.valor = <<>>
                     THEN de_fecha
                     ELSE de_fecha
                              \o <<SumaLetras(nombre_normalizado.valor),
                                    fecha_valida.day, fecha_valida.month,
                                    suma_ano>>)

\* a faulty variant of TablaTrasInforme: PLANTILLAS_TIKKUN.pop in place of .get
TablaTrasInformePop(tabla, r) ==
    IF r.plantilla = Nada THEN tabla
    ELSE [k \in {x \in DOMAIN tabla : tabla[x] # r.plantilla} |-> tabla[k]]

\* the table after a call: generar_informe_kabalista only reads it
TablaTrasInforme(tabla, r) == tabla

(***************************************************************************)
(* The reducers step by step: one action per loop iteration.               *)
(***************************************************************************)
InitReducir ==
    /\ pc = "idle"
    /\ fn = "ninguna"
    /\ entrada = 0
    /\ numero = 0
    /\ resultado = Nada
    /\ plantilla = Nada
    /\ PLANTILLAS_TIKKUN = PlantillasFuente
    /\ memo = Nada
    /\ SinPresentacion

\* a faulty variant of ReducirLlamar: `numero < 0` in place of `numero <= 0`
ReducirLlamarSinCero ==
    /\ pc = "idle"
    /\ \E f \in {"reducir_numero", "reducir_simple"} :
       \E n \in (0 - MaxNegativo)..MaxNumero :
          /\ fn' = f
          /\ entrada' = n
          /\ numero' = n
          /\ IF n < 0
             THEN pc' = "raise" /\ resultado' = Err("InvalidNumber")
             ELSE pc' = "loop" /\ resultado' = Nada
    /\ UNCHANGED <<plantilla, PLANTILLAS_TIKKUN, memo, presentacion>>

\* the call of a reducer, up to its check of numero <= 0
ReducirLlamar ==
    /\ pc = "idle"
    /\ \E f \in {"reducir_numero", "reducir_simple"} :
       \E n \in (0 - MaxNegativo)..MaxNumero :
          /\ fn' = f
          /\ entrada' = n
          /\ numero' = n
          /\ IF n <= 0
             THEN pc' = "raise" /\ resultado' = Err("InvalidNumber")
             ELSE pc' = "loop" /\ resultado' = Nada
    /\ UNCHANGED <<plantilla, PLANTILLAS_TIKKUN, memo, presentacion>>

ReducirNumeroPaso ==
    /\ pc = "loop"
    /\ fn = "reducir_numero"
    /\ CondNumero(numero)
    /\ numero' = PasoNumero(numero)
    /\ UNCHANGED <<pc, fn, entrada, resultado, plantilla, PLANTILLAS_TIKKUN, memo,
                   presentacion>>

ReducirNumeroRetorno ==
    /\ pc = "loop"
    /\ fn = "reducir_numero"
    /\ ~CondNumero(numero)
    /\ pc' = "return"
    /\ resultado' = Ok(numero)
    /\ UNCHANGED <<fn, entrada, numero, plantilla, PLANTILLAS_TIKKUN, memo,
                   presentacion>>

ReducirSimplePaso ==
    /\ pc = "loop"
    /\ fn = "reducir_simple"
    /\ CondSimple(numero)
    /\ numero' = PasoSimple(numero)
    /\ UNCHANGED <<pc, fn, entrada, resultado, plantilla, PLANTILLAS_TIKKUN, memo,
                   presentacion>>

ReducirSimpleRetorno ==
    /\ pc = "loop"
    /\ fn = "reducir_simple"
    /\ ~CondSimple(numero)
    /\ pc' = "return"
    /\ resultado' = Ok(numero)
    /\ UNCHANGED <<fn, entrada, numero, plantilla, PLANTILLAS_TIKKUN, memo,
                   presentacion>>

\* the caller takes the result; the next call may start
Fin ==
    /\ pc \in {"return", "raise"}
    /\ pc' = "idle"
    /\ fn' = "ninguna"
    /\ entrada' = 0
    /\ numero' = 0
    /\ resultado' = Nada
    /\ plantilla' = Nada
    /\ UNCHANGED <<PLANTILLAS_TIKKUN, memo, presentacion>>

NextReducir ==
    \/ ReducirLlamar
    \/ ReducirNumeroPaso
    \/ ReducirNumeroRetorno
    \/ ReducirSimplePaso
    \/ ReducirSimpleRetorno
    \/ Fin

SpecReducir == InitReducir /\ [][NextReducir]_vars /\ WF_vars(NextReducir)

(***************************************************************************)
(* C5: for every positive n, reducir_numero returns a value in             *)
(* {1..9, 11, 22, 33} and reducir_simple returns a value in 1..9, and      *)
(* both loops terminate: a call that entered its loop returns.             *)
(***************************************************************************)
C5_RangoYTerminacion ==
    /\ [](pc = "return" /\ fn = "reducir_numero"
             => resultado.valor \in (1..9) \cup MAESTROS)
    /\ [](pc = "return" /\ fn = "reducir_simple" => resultado.valor \in 1..9)
    /\ ((pc = "loop") ~> (pc = "return"))

C5_Witness ==
    /\ pc = "return"
    /\ fn = "reducir_numero"
    /\ entrada = 119
    /\ resultado = Ok(11)

(***************************************************************************)
(* C6: for every positive n, reducir_simple(reducir_numero(n)) equals      *)
(* reducir_simple(n): halting at a master number does not change the       *)
(* final single digit.                                                     *)
(***************************************************************************)
C6_MaestroNoCambiaDigito ==
    (pc = "return" /\ fn = "reducir_numero")
        => reducir_simple(resultado.valor) = reducir_simple(entrada)

C6_Witness ==
    /\ pc = "return"
    /\ fn = "reducir_numero"
    /\ entrada = 29
    /\ resultado = Ok(11)
    /\ reducir_simple(11) = Ok(2)

(***************************************************************************)
(* C19: both reducers fail with InvalidNumber for every input <= 0, before *)
(* any digit is summed, and return every input of 1..9 unchanged, again    *)
(* without summing.                                                        *)
(***************************************************************************)
C19_NoPositivoFalla ==
    fn \in {"reducir_numero", "reducir_simple"} =>
        /\ entrada <= 0 =>
               /\ pc = "raise"
               /\ resultado = Err("InvalidNumber")
               /\ numero = entrada
        /\ pc = "raise" => entrada <= 0
        /\ entrada \in 1..9 =>
               /\ numero = entrada
               /\ pc = "return" => resultado = Ok(entrada)
               /\ pc \in {"loop", "return"}

C19_Witness ==
    /\ pc = "raise"
    /\ fn = "reducir_simple"
    /\ entrada = 0
    /\ numero = 0
    /\ resultado = Err("InvalidNumber")

(***************************************************************************)
(* The date analyser on written dates.  A caller writes the day d, month   *)
(* m and year y it means in one of the forms below; the analyser sees      *)
(* only the string.                                                        *)
(***************************************************************************)
\* "%02d" and "%04d" of strftime
Pad2(n) == IF n < 10 THEN <<"0">> \o StrNat(n) ELSE StrNat(n)

Pad4(n) ==
    IF n < 10 THEN <<"0", "0", "0">> \o StrNat(n)
    ELSE IF n < 100 THEN <<"0", "0">> \o StrNat(n)
    ELSE IF n < 1000 THEN <<"0">> \o StrNat(n)
    ELSE StrNat(n)

AnosEntrada == {0, 1, 1900, 1990, 2000, 2023, 2024}

\* the forms that are one of the two formats, padded or not
FormasFecha ==
    {"DD/MM/YYYY", "YYYY-MM-DD", "D/M/YYYY", "YYYY-M-D", " DD/MM/YYYY ",
     "YYYY-MM- D"}

\* the forms that are neither format
FormasAjenas ==
    {"DD-MM-YYYY", "YYYY/MM/DD", "DD/MM/YY", "DDMMYYYY", "DD/MM/YYYYx",
     "DD/ MM/YYYY", ""}

Escribir(forma, d, m, y) ==
    CASE forma = "DD/MM/YYYY" -> Pad2(d) \o <<"/">> \o Pad2(m) \o <<"/">> \o Pad4(y)
      [] forma = "YYYY-MM-DD" -> Pad4(y) \o <<"-">> \o Pad2(m) \o <<"-">> \o Pad2(d)
      [] forma = "D/M/YYYY" -> StrNat(d) \o <<"/">> \o StrNat(m) \o <<"/">> \o Pad4(y)
      [] forma = "YYYY-M-D" -> Pad4(y) \o <<"-">> \o StrNat(m) \o <<"-">> \o StrNat(d)
      [] forma = " DD/MM/YYYY " ->
            <<" ">> \o Pad2(d) \o <<"/">> \o Pad2(m) \o <<"/">> \o Pad4(y) \o <<" ">>
      [] forma = "YYYY-MM- D" ->
            Pad4(y) \o <<"-">> \o Pad2(m) \o <<"-", " ">> \o StrNat(d)
      [] forma = "DD-MM-YYYY" -> Pad2(d) \o <<"-">> \o Pad2(m) \o <<"-">> \o Pad4(y)
      [] forma = "YYYY/MM/DD" -> Pad4(y) \o <<"/">> \o Pad2(m) \o <<"/">> \o Pad2(d)
      [] forma = "DD/MM/YY" -> Pad2(d) \o <<"/">> \o Pad2(m) \o <<"/">> \o Pad2(y % 100)
      [] forma = "DDMMYYYY" -> Pad2(d) \o Pad2(m) \o Pad4(y)
      [] forma = "DD/MM/YYYYx" ->
            Pad2(d) \o <<"/">> \o Pad2(m) \o <<"/">> \o Pad4(y) \o <<"x">>
      [] forma = "DD/ MM/YYYY" ->
            Pad2(d) \o <<"/", " ">> \o Pad2(m) \o <<"/">> \o Pad4(y)
      [] OTHER -> <<>>

InitFecha ==
    /\ pc = "idle"
    /\ fn = "ninguna"
    /\ entrada = 0
    /\ numero = 0
    /\ resultado = Nada
    /\ plantilla = Nada
    /\ PLANTILLAS_TIKKUN = PlantillasFuente
    /\ memo = Nada
    /\ SinPresentacion

\* where a call that ended stands: it returned, or it raised
Termino(f) == pc \in {"return", "raise"} /\ fn = f

PcTras(r) == IF r.tipo = "ok" THEN "return" ELSE "raise"

\* one call analizar_fecha_numerologia(fecha_str), the date written in one
\* of `formas`, for a month of `meses` and a year of `anos`
AnalizarFecha(formas, meses, anos) ==
    /\ pc = "idle"
    /\ \E forma \in formas :
       \E d \in 0..MaxDia : \E m \in meses : \E y \in anos :
          LET fecha_str == Escribir(forma, d, m, y)
              r == analizar_fecha_numerologia(fecha_str)
          IN  /\ entrada' = [fecha |-> fecha_str, forma |-> forma,
                             dia |-> d, mes |-> m, ano |-> y]
              /\ resultado' = r
              /\ pc' = PcTras(r)
    /\ fn' = "analizar_fecha_numerologia"
    /\ UNCHANGED <<numero, plantilla, PLANTILLAS_TIKKUN,
                   memo, presentacion>>

LlamarAnalizarFecha ==
    AnalizarFecha(FormasFecha \cup FormasAjenas, 0..MaxMes, AnosEntrada)

NextFecha == LlamarAnalizarFecha \/ Fin

SpecFecha == InitFecha /\ [][NextFecha]_vars

\* the calendar, as the claims about dates mean it
DiasEnCalendario(y, m) ==
    CASE m \in {1, 3, 5, 7, 8, 10, 12} -> 31
      [] m \in {4, 6, 9, 11} -> 30
      [] m = 2 -> IF y % 400 = 0 \/ (y % 4 = 0 /\ y % 100 # 0) THEN 29 ELSE 28
      [] OTHER -> 0

CalendarioExiste(d, m, y) == y >= 1 /\ d >= 1 /\ d <= DiasEnCalendario(y, m)

RetornoAnalizar == Termino("analizar_fecha_numerologia")

(***************************************************************************)
(* C2: the date analyser fails with InvalidDate for every string that is   *)
(* in neither format and for every string that names a day that is not in  *)
(* the calendar (31/02/2000, 31/04/YYYY, 30/02/YYYY, 29/02/1900); it       *)
(* returns no DateInfo for such a string.                                  *)
(***************************************************************************)
C2_FechaInvalidaFalla ==
    RetornoAnalizar =>
        ((\/ entrada.forma \in FormasAjenas
          \/ ~CalendarioExiste(entrada.dia, entrada.mes, entrada.ano))
            => resultado = Err("InvalidDate"))

C2_Witness ==
    /\ RetornoAnalizar
    /\ entrada.fecha = <<"3", "1", "/", "0", "2", "/", "2", "0", "0", "0">>
    /\ resultado = Err("InvalidDate")

(***************************************************************************)
(* C3, as claimed: a string the analyser accepts is exactly of the form    *)
(* DD/MM/YYYY or YYYY-MM-DD, two-digit day and month, four-digit year, no  *)
(* surrounding whitespace.                                                 *)
(***************************************************************************)
SonDigitos(s, desde, hasta) == \A k \in desde..hasta : s[k] \in Digitos09

EsFormaExacta(s) ==
    /\ Len(s) = 10
    /\ \/ /\ SonDigitos(s, 1, 2) /\ s[3] = "/" /\ SonDigitos(s, 4, 5)
          /\ s[6] = "/" /\ SonDigitos(s, 7, 10)
       \/ /\ SonDigitos(s, 1, 4) /\ s[5] = "-" /\ SonDigitos(s, 6, 7)
          /\ s[8] = "-" /\ SonDigitos(s, 9, 10)

EsNumeral(x, largos) == Len(x) \in largos /\ SonDigitos(x, 1, Len(x))

EsDiaConEspacio(x) == Len(x) = 2 /\ x[1] = " " /\ x[2] \in Digitos09

Aceptable(t) ==
    \E i \in 1..Len(t) : \E j \in 1..Len(t) :
       /\ i < j
       /\ LET a == SubSeq(t, 1, i - 1)
              b == SubSeq(t, i + 1, j - 1)
              c == SubSeq(t, j + 1, Len(t))
          IN  \/ /\ t[i] = "/" /\ t[j] = "/"
                 /\ EsNumeral(a, {1, 2}) /\ EsNumeral(b, {1, 2})
                 /\ EsNumeral(c, {4})
                 /\ CalendarioExiste(IntDeStr(a), IntDeStr(b), IntDeStr(c))
              \/ /\ t[i] = "-" /\ t[j] = "-"
                 /\ EsNumeral(a, {4}) /\ EsNumeral(b, {1, 2})
                 /\ \/ /\ EsNumeral(c, {1, 2})
                       /\ CalendarioExiste(IntDeStr(c), IntDeStr(b), IntDeStr(a))
                    \/ /\ EsDiaConEspacio(c)
                       /\ CalendarioExiste(IntDeStr(<<c[2]>>), IntDeStr(b),
                                           IntDeStr(a))

C4_MismoDateInfo ==
    (/\ RetornoAnalizar
     /\ entrada.forma = "DD/MM/YYYY"
     /\ CalendarioExiste(entrada.dia, entrada.mes, entrada.ano))
        => /\ resultado.tipo = "ok"
           /\ resultado = analizar_fecha_numerologia(
                  Escribir("YYYY-MM-DD", entrada.dia, entrada.mes, entrada.ano))

C4_Witness ==
    /\ RetornoAnalizar
    /\ entrada.fecha = <<"2", "5", "/", "1", "2", "/", "1", "9", "9", "0">>
    /\ resultado.tipo = "ok"
    /\ resultado.valor.numero_vida = 11
    /\ resultado = analizar_fecha_numerologia(
           <<"1", "9", "9", "0", "-", "1", "2", "-", "2", "5">>)

\* the sum of the decimal digits of a year of at most four digits
SumaDigitosAno(y) ==
    (y \div 1000) + ((y \div 100) % 10) + ((y \div 10) % 10) + (y % 10)

(***************************************************************************)
(* C11: for every date the analyser accepts, the DateInfo holds the day,   *)
(* month and year written, suma_ano is the sum of the year's decimal       *)
(* digits, base_total = dia + mes + suma_ano, numero_vida is               *)
(* reducir_numero(base_total), base_simple is reducir_simple(numero_vida), *)
(* and representacion_camino is "numero_vida/base_simple" for a master     *)
(* numero_vida and the decimal text of numero_vida otherwise.              *)
(***************************************************************************)
C11_DateInfo ==
    (RetornoAnalizar /\ resultado.tipo = "ok") =>
        LET v == resultado.valor
        IN  /\ v.dia = entrada.dia /\ v.mes = entrada.mes /\ v.ano = entrada.ano
            /\ v.suma_ano = SumaDigitosAno(entrada.ano)
            /\ v.base_total = entrada.dia + entrada.mes + v.suma_ano
            /\ reducir_numero(v.base_total) = Ok(v.numero_vida)
            /\ reducir_simple(v.numero_vida) = Ok(v.base_simple)
            /\ v.numero_vida \in MAESTROS =>
                   v.representacion_camino =
                       StrNat(v.numero_vida) \o <<"/">> \o StrNat(v.base_simple)
            /\ v.numero_vida \notin MAESTROS =>
                   v.representacion_camino = StrNat(v.numero_vida)

C11_Witness ==
    /\ RetornoAnalizar
    /\ entrada.fecha = <<"2", "5", "/", "1", "2", "/", "1", "9", "9", "0">>
    /\ resultado.tipo = "ok"
    /\ resultado.valor.suma_ano = 19
    /\ resultado.valor.base_total = 56
    /\ resultado.valor.numero_vida = 11
    /\ resultado.valor.base_simple = 2
    /\ resultado.valor.representacion_camino = <<"1", "1", "/", "2">>

(***************************************************************************)
(* The core as its callers use it: one action per call of a function of    *)
(* the module, the whole call in one step.                                 *)
(***************************************************************************)
AlfabetoNombre ==
    {"a", "M", "Z", "i_acute", "acute", "eszett", "fi_lig", "1", " "}

Cadenas(alfabeto, largo) == UNION {[1..k -> alfabeto] : k \in 0..largo}

Maria == <<"M", "a", "r", "i_acute", "a">>

\* the names given to the name functions: every short string, and not a str
NombresEntrada ==
    {Texto(c) : c \in Cadenas(AlfabetoNombre, MaxLenNombre)}
        \cup {Texto(Maria), NoTexto}

\* the names given with a date
NombresInforme ==
    {Texto(Maria), Texto(<<"1", "2", "3">>), Texto(<<>>), Texto(<<"a", " ", "Z">>),
     Texto(<<"a">>)}

AnosInforme == {1990, 1993, 2000, 2009, 9996}

Init ==
    /\ pc = "idle"
    /\ fn = "ninguna"
    /\ entrada = 0
    /\ numero = 0
    /\ resultado = Nada
    /\ plantilla = Nada
    /\ PLANTILLAS_TIKKUN = PlantillasFuente
    /\ memo = Nada
    /\ SinPresentacion

LlamarNormalizarNombre ==
    /\ pc = "idle"
    /\ \E nombre \in NombresEntrada :
          LET r == normalizar_nombre(nombre)
          IN  /\ entrada' = [nombre |-> nombre]
              /\ resultado' = r
              /\ pc' = PcTras(r)
    /\ fn' = "normalizar_nombre"
    /\ UNCHANGED <<numero, plantilla, PLANTILLAS_TIKKUN,
                   memo, presentacion>>

LlamarNumeroDesdeNombre ==
    /\ pc = "idle"
    /\ \E nombre \in NombresEntrada :
          LET r == numero_desde_nombre(nombre)
          IN  /\ entrada' = [nombre |-> nombre]
              /\ resultado' = r
              /\ pc' = PcTras(r)
    /\ fn' = "numero_desde_nombre"
    /\ UNCHANGED <<numero, plantilla, PLANTILLAS_TIKKUN,
                   memo, presentacion>>

\* the characters given to letra_a_numero: the 52 letters and others
Caracteres ==
    {Mayusculas[i] : i \in 1..26} \cup {Minusculas[i] : i \in 1..26}
        \cup AlfabetoNombre
        \cup {"n_tilde", "tilde", "dotless_i", "long_s", "9", "-", "@"}

LlamarLetraANumero ==
    /\ pc = "idle"
    /\ \E letra \in Caracteres :
          /\ entrada' = [letra |-> letra]
          /\ resultado' = Ok(letra_a_numero(letra))
    /\ pc' = "return"
    /\ fn' = "letra_a_numero"
    /\ UNCHANGED <<numero, plantilla, PLANTILLAS_TIKKUN, memo, presentacion>>

LlamarArquetipoDesdeNumero ==
    /\ pc = "idle"
    /\ \E n \in (0 - MaxNegativo)..MaxNumero :
          /\ entrada' = [numero |-> n]
          /\ resultado' = Ok(arquetipo_desde_numero(n))
    /\ pc' = "return"
    /\ fn' = "arquetipo_desde_numero"
    /\ UNCHANGED <<numero, plantilla, PLANTILLAS_TIKKUN, memo, presentacion>>

\* one call generar_informe_kabalista(nombre, fecha_nacimiento)
GenerarInforme(nombres, formas, meses, anos) ==
    /\ pc = "idle"
    /\ \E nombre \in nombres : \E forma \in formas :
       \E d \in 0..MaxDia : \E m \in meses : \E y \in anos :
       \E fecha \in {Escribir(forma, d, m, y)} :
       \E r \in {generar_informe_kabalista(nombre, fecha, PLANTILLAS_TIKKUN)} :
              /\ entrada' = [nombre |-> nombre, fecha |-> fecha]
              /\ resultado' = r.resultado
              /\ plantilla' = r.plantilla
              /\ PLANTILLAS_TIKKUN' = TablaTrasInforme(PLANTILLAS_TIKKUN, r)
              /\ pc' = PcTras(r.resultado)
    /\ fn' = "generar_informe_kabalista"
    /\ UNCHANGED <<numero, memo, presentacion>>

LlamarGenerarInforme ==
    GenerarInforme(NombresInforme, {"DD/MM/YYYY", "YYYY-MM-DD"}, 0..MaxMes,
                   AnosInforme)

Next ==
    \/ LlamarNormalizarNombre
    \/ LlamarNumeroDesdeNombre
    \/ LlamarLetraANumero
    \/ LlamarArquetipoDesdeNumero
    \/ LlamarGenerarInforme
    \/ Fin

Spec == Init /\ [][Next]_vars

\* a name that is a str and has a letter A-Z or a-z in its decomposition
TieneLetra(nombre) ==
    /\ nombre.tipo = "str"
    /\ \E i \in 1..Len(nombre.chars) :
          \E j \in 1..Len(NFKD(nombre.chars[i])) :
             EsLetraAscii(NFKD(nombre.chars[i])[j])

SinLetras(nombre) == nombre.tipo = "str" /\ ~TieneLetra(nombre)

(***************************************************************************)
(* C1: numero_desde_nombre fails with InvalidInput for every name with no  *)
(* letter A-Z after normalisation, and so does generar_informe_kabalista   *)
(* whenever the date is valid; no report is returned.                      *)
(***************************************************************************)
C1_NombreSinLetrasFalla ==
    /\ (Termino("numero_desde_nombre") /\ SinLetras(entrada.nombre))
           => (resultado = Err("InvalidInput") /\ pc = "raise")
    /\ (/\ Termino("generar_informe_kabalista")
        /\ SinLetras(entrada.nombre)
        /\ analizar_fecha_numerologia(entrada.fecha).tipo = "ok")
           => (resultado = Err("InvalidInput") /\ pc = "raise")

C1_Witness ==
    /\ Termino("generar_informe_kabalista")
    /\ entrada.nombre = Texto(<<"1", "2", "3">>)
    /\ entrada.fecha = <<"2", "5", "/", "1", "2", "/", "1", "9", "9", "0">>
    /\ resultado = Err("InvalidInput")

(***************************************************************************)
(* C7: normalizar_nombre is idempotent, and what it returns holds only     *)
(* the uppercase letters A-Z.                                              *)
(***************************************************************************)
C7_NormalizarIdempotente ==
    (Termino("normalizar_nombre") /\ resultado.tipo = "ok")
        => /\ normalizar_nombre(Texto(resultado.valor)) = resultado
           /\ \A i \in 1..Len(resultado.valor) : EsMayuscula(resultado.valor[i])

C7_Witness ==
    /\ Termino("normalizar_nombre")
    /\ entrada.nombre = Texto(Maria)
    /\ resultado = Ok(<<"M", "A", "R", "I", "A">>)
    /\ normalizar_nombre(Texto(<<"M", "A", "R", "I", "A">>)) = resultado

(***************************************************************************)
(* C8, as claimed: normalizar_nombre fails with InvalidInput when the      *)
(* input is not a str and when no letter remains; it never returns the     *)
(* empty string.                                                           *)
(***************************************************************************)
C8_NormalizarNuncaVacio ==
    Termino("normalizar_nombre") =>
        /\ resultado # Ok(<<>>)
        /\ ~TieneLetra(entrada.nombre) => resultado = Err("InvalidInput")

(***************************************************************************)
(* C8, amended: normalizar_nombre fails with InvalidInput only when the    *)
(* input is not a str; when no letter remains it returns the empty string, *)
(* and its caller numero_desde_nombre raises InvalidInput for that name.   *)
(***************************************************************************)
C8_NormalizarDevuelveVacio ==
    /\ Termino("normalizar_nombre") =>
          /\ entrada.nombre.tipo # "str" <=> resultado = Err("InvalidInput")
          /\ SinLetras(entrada.nombre) <=> resultado = Ok(<<>>)
    /\ (Termino("numero_desde_nombre")
          /\ normalizar_nombre(entrada.nombre) = Ok(<<>>))
          => resultado = Err("InvalidInput")

C8_Witness ==
    /\ Termino("normalizar_nombre")
    /\ entrada.nombre = Texto(<<"1", "1", "1">>)
    /\ resultado = Ok(<<>>)
    /\ pc = "return"

\* the place of a letter in the alphabet, A = 1 ... Z = 26, either case
PosicionAlfabeto(c) == CHOOSE i \in 1..26 : Mayusculas[i] = c \/ Minusculas[i] = c

\* the digit of a letter: three interleaved groups of nine
ValorPitagorico(c) == ((PosicionAlfabeto(c) - 1) % 9) + 1

RECURSIVE SumaPitagorica(_)
\* the sum of the digits of the letters of s; other characters add nothing
SumaPitagorica(s) ==
    IF Len(s) = 0 THEN 0
    ELSE (IF EsLetraAscii(Head(s)) THEN ValorPitagorico(Head(s)) ELSE 0)
             + SumaPitagorica(Tail(s))

\* a character that carries a letter A-Z or a-z in its decomposition
LlevaLetra(c) == \E j \in 1..Len(NFKD(c)) : EsLetraAscii(NFKD(c)[j])

(***************************************************************************)
(* C12: for every name with at least one letter numero_desde_nombre        *)
(* returns reducir_numero of the sum of the digits of the name's letters,  *)
(* a number in {1..9, 11, 22, 33}; the name with its characters that are   *)
(* not letters (spaces, digits, combining marks) taken out gives the same  *)
(* number.                                                                 *)
(***************************************************************************)
C12_NumeroDelNombre ==
    (Termino("numero_desde_nombre") /\ TieneLetra(entrada.nombre)) =>
        /\ pc = "return"
        /\ resultado.tipo = "ok"
        /\ resultado.valor \in (1..9) \cup MAESTROS
        /\ resultado =
               reducir_numero(SumaPitagorica(NFKDCadena(entrada.nombre.chars)))
        /\ resultado =
               numero_desde_nombre(
                   Texto(SelectSeq(entrada.nombre.chars, LlevaLetra)))

C12_Witness ==
    /\ Termino("numero_desde_nombre")
    /\ entrada.nombre = Texto(Maria)
    /\ normalizar_nombre(Texto(Maria)) = Ok(<<"M", "A", "R", "I", "A">>)
    /\ SumaPitagorica(<<"M", "A", "R", "I", "A">>) = 24
    /\ resultado = Ok(6)

(***************************************************************************)
(* C13: InvalidNumber cannot be reached from valid input.  For every date  *)
(* the analyser accepts and every name with a letter, all six reducer      *)
(* calls of generar_informe_kabalista (on base_total, numero_vida, the     *)
(* letter sum, dia, mes and suma_ano) are made, each with an argument      *)
(* above 0, and the report is returned; a call raises InvalidNumber        *)
(* exactly when a reducer received an argument <= 0.                       *)
(***************************************************************************)
C13_InvalidNumberInalcanzable ==
    Termino("generar_informe_kabalista") =>
        LET args == ArgumentosReducir(entrada.nombre, entrada.fecha)
        IN  /\ (resultado = Err("InvalidNumber"))
                   <=> (\E i \in 1..Len(args) : args[i] <= 0)
            /\ (Aceptable(Strip(entrada.fecha)) /\ TieneLetra(entrada.nombre))
                   => /\ Len(args) = 6
                      /\ \A i \in 1..Len(args) : args[i] > 0
                      /\ resultado.tipo = "ok"

C13_Witness ==
    /\ Termino("generar_informe_kabalista")
    /\ entrada.nombre = Texto(Maria)
    /\ entrada.fecha = <<"2", "5", "/", "1", "2", "/", "1", "9", "9", "0">>
    /\ ArgumentosReducir(entrada.nombre, entrada.fecha) = <<56, 11, 24, 25, 12, 19>>
    /\ resultado.tipo = "ok"

\* after normalizar_nombre no character of the name maps to 0
SinCeroTrasNormalizar ==
    (Termino("normalizar_nombre") /\ resultado.tipo = "ok") =>
        \A i \in 1..Len(resultado.valor) :
           letra_a_numero(resultado.valor[i]) \in 1..9

(***************************************************************************)
(* C15: letra_a_numero maps each of the 26 letters, in either case, to     *)
(* ((position - 1) mod 9) + 1 and every other character to 0 without       *)
(* raising, and after normalizar_nombre no character of a name maps to 0.  *)
(* The code maps two characters that are not among the 26 letters to a     *)
(* digit: str.upper() turns dotless i into "I" (9) and long s into "S"     *)
(* (1).                                                                    *)
(***************************************************************************)
C15_OtrosCaracteresCero ==
    /\ Termino("letra_a_numero") =>
          /\ pc = "return"
          /\ resultado =
                 Ok(IF EsLetraAscii(entrada.letra)
                    THEN ValorPitagorico(entrada.letra)
                    ELSE 0)
    /\ SinCeroTrasNormalizar

\* the single digit a positive number reduces to
RaizDigital(n) == ((n - 1) % 9) + 1

\* the energy line of the report for the number n, as the claim has it
LineaEnergia(etiqueta, n) ==
    etiqueta \o <<RaizDigital(n), <<"energia", RaizDigital(n)>> >>

(***************************************************************************)
(* C16: in every report the three energy lines, of the day, the month and  *)
(* the year's digit sum, show the number reduced to a single digit 1..9,   *)
(* also when the number is 11, 22 or 33 (11 shows as 2, 22 as 4), with     *)
(* the description of that digit and never "energia no definida".          *)
(***************************************************************************)
C16_EnergiasUnDigito ==
    (Termino("generar_informe_kabalista") /\ resultado.tipo = "ok") =>
        LET f == analizar_fecha_numerologia(entrada.fecha).valor
            v == resultado.valor
        IN  /\ v[13] = LineaEnergia(<<"*", "Dia", f.dia>>, f.dia)
            /\ v[14] = LineaEnergia(<<"*", "Mes", f.mes>>, f.mes)
            /\ v[15] = LineaEnergia(<<"*", "Ano", f.ano, SumaDigitosAno(f.ano)>>,
                                    SumaDigitosAno(f.ano))
            /\ \A k \in {13, 14, 15} :
                  /\ v[k][Len(v[k]) - 1] \in 1..9
                  /\ v[k][Len(v[k])] # <<"energia no definida">>

C16_Witness ==
    /\ Termino("generar_informe_kabalista")
    /\ entrada.fecha = <<"1", "1", "/", "1", "1", "/", "1", "9", "9", "3">>
    /\ resultado.tipo = "ok"
    /\ resultado.valor[13] = <<"*", "Dia", 11, 2, <<"energia", 2>> >>
    /\ resultado.valor[14] = <<"*", "Mes", 11, 2, <<"energia", 2>> >>
    /\ resultado.valor[15] = <<"*", "Ano", 1993, 22, 4, <<"energia", 4>> >>

(***************************************************************************)
(* C17: arquetipo_desde_numero never fails.  For each number of            *)
(* {1..9, 11, 22, 33} it returns the entry of that number, with its name,  *)
(* description and correction theme; for every other integer (0, 10, 12,   *)
(* negative ones) it returns the fixed "Arquetipo no definido" entry.      *)
(***************************************************************************)
C17_ArquetipoNuncaFalla ==
    Termino("arquetipo_desde_numero") =>
        /\ pc = "return"
        /\ resultado.tipo = "ok"
        /\ DOMAIN resultado.valor = {"nombre", "descripcion", "perfeccionar"}
        /\ entrada.numero \in (1..9) \cup {11, 22, 33} =>
               /\ resultado.valor.nombre = <<"nombre", entrada.numero>>
               /\ resultado.valor.descripcion = <<"descripcion", entrada.numero>>
               /\ resultado.valor.perfeccionar = <<"perfeccionar", entrada.numero>>
        /\ entrada.numero \notin (1..9) \cup {11, 22, 33} =>
               /\ resultado.valor.nombre = <<"Arquetipo no definido">>
               /\ resultado.valor.descripcion = <<"sin arquetipo configurado">>
               /\ resultado.valor.perfeccionar = <<"sin tikkun configurado">>

C17_Witness ==
    /\ Termino("arquetipo_desde_numero")
    /\ entrada.numero = 10
    /\ resultado.tipo = "ok"
    /\ resultado.valor.nombre = <<"Arquetipo no definido">>

(***************************************************************************)
(* C21: generar_informe_kabalista checks the date before the name.  When   *)
(* the date is not accepted it raises InvalidDate whatever the name is, a  *)
(* name with no letters included; it raises InvalidInput only when the     *)
(* date is accepted, and then exactly for a name with no letters.  A call  *)
(* that fails returns no part of the report and has not reached the        *)
(* template lookup.                                                        *)
(***************************************************************************)
C21_FechaAntesQueNombre ==
    Termino("generar_informe_kabalista") =>
        /\ ~Aceptable(Strip(entrada.fecha)) =>
               (resultado = Err("InvalidDate") /\ pc = "raise")
        /\ resultado = Err("InvalidInput") =>
               (Aceptable(Strip(entrada.fecha)) /\ ~TieneLetra(entrada.nombre))
        /\ (Aceptable(Strip(entrada.fecha)) /\ ~TieneLetra(entrada.nombre)) =>
               (resultado = Err("InvalidInput") /\ pc = "raise")
        /\ pc = "raise" =>
               /\ DOMAIN resultado = {"tipo"}
               /\ plantilla = Nada

C21_Witness ==
    /\ Termino("generar_informe_kabalista")
    /\ entrada.nombre = Texto(<<"1", "2", "3">>)
    /\ ~TieneLetra(entrada.nombre)
    /\ entrada.fecha = <<"3", "1", "/", "0", "2", "/", "2", "0", "0", "0">>
    /\ resultado = Err("InvalidDate")
    /\ plantilla = Nada

(***************************************************************************)
(* The template lookup with PLANTILLAS_TIKKUN as an input: the module      *)
(* table with at most MaxFaltan of its entries taken out.  The dates are   *)
(* those of December 2000, which give every life number.                   *)
(***************************************************************************)
SinClaves(faltan) == [k \in Claves \ faltan |-> PlantillasFuente[k]]

InitPlantilla ==
    /\ pc = "idle"
    /\ fn = "ninguna"
    /\ entrada = 0
    /\ numero = 0
    /\ resultado = Nada
    /\ plantilla = Nada
    /\ \E faltan \in SUBSET Claves :
          /\ Cardinality(faltan) <= MaxFaltan
          /\ PLANTILLAS_TIKKUN = SinClaves(faltan)
    /\ memo = Nada
    /\ SinPresentacion

NombresPlantilla == {Texto(Maria), Texto(<<"1", "2", "3">>)}

PlantillaGenerarInforme ==
    GenerarInforme(NombresPlantilla, {"DD/MM/YYYY"}, {12}, {2000})

NextPlantilla == PlantillaGenerarInforme \/ Fin

SpecPlantilla == InitPlantilla /\ [][NextPlantilla]_vars

\* the DateInfo of the call that ended
InfoEntrada == analizar_fecha_numerologia(entrada.fecha).valor

\* the call returned a report and neither lookup found an entry
SinPlantillaPropia ==
    /\ pc = "return"
    /\ fn = "generar_informe_kabalista"
    /\ InfoEntrada.numero_vida \notin DOMAIN PLANTILLAS_TIKKUN
    /\ InfoEntrada.base_simple \notin DOMAIN PLANTILLAS_TIKKUN

EsEncabezado(linea) == linea # <<>> /\ linea[1] # "*"

EsVineta(linea) == linea # <<>> /\ linea[1] = "*"

\* the first words of the lines of v that are neither empty nor bullets
Encabezados(v) ==
    LET sel == SelectSeq(v, EsEncabezado)
    IN  [i \in 1..Len(sel) |-> sel[i][1]]

\* the bullets that follow the line of v that starts with `titulo`
VinetasTras(v, titulo) ==
    LET i == CHOOSE k \in 1..Len(v) : v[k] # <<>> /\ v[k][1] = titulo
        n == CHOOSE k \in 0..(Len(v) - i) :
                  /\ \A j \in 1..k : EsVineta(v[i + j])
                  /\ i + k + 1 <= Len(v) => ~EsVineta(v[i + k + 1])
    IN  SubSeq(v, i + 1, i + n)

\* the line that comes after the bullets of `titulo`
LineaTras(v, titulo) ==
    LET i == CHOOSE k \in 1..Len(v) : v[k] # <<>> /\ v[k][1] = titulo
    IN  v[i + Len(VinetasTras(v, titulo)) + 1]

\* the header of a section that is shown only when its list is not empty
SiNoVacia(lista, titulo) == IF lista = <<>> THEN <<>> ELSE <<titulo>>

Marcadas(lista) == [i \in 1..Len(lista) |-> <<"*", lista[i]>>]

(***************************************************************************)
(* C18: the sections of the report come in a fixed order: the date, the    *)
(* path, the breakdown of the sum, three energy lines, the life archetype, *)
(* the central theme, the patterns, the correction phrases followed by     *)
(* exactly one more bullet that restates the life archetype's correction   *)
(* theme, the keys, the questions, the name archetype, the synthesis.  A   *)
(* patterns, keys or questions section whose list is empty adds nothing,   *)
(* no header, no bullet and no empty line; the headers of the central      *)
(* theme and of the correction phrases are always there.                   *)
(***************************************************************************)
C18_OrdenDeSecciones ==
    (Termino("generar_informe_kabalista") /\ resultado.tipo = "ok") =>
        LET v == resultado.valor
            p == plantilla
            resumen == <<"*", "En resumen, tu tikkun de fondo es",
                         <<"perfeccionar", InfoEntrada.numero_vida>> >>
        IN  /\ Encabezados(v) =
                   <<"Voy directo al grano usando tu fecha",
                     "tu fecha habla de un camino",
                     "Ese camino se apoya en tu dia y tu mes",
                     "Suma basica de la fecha",
                     "Total",
                     "Energias que sostienen tu camino de alma",
                     "Arquetipo central segun tu numero de vida",
                     "Tema central de tu tikkun">>
                   \o SiNoVacia(p.patrones, "Patrones que tienden a repetirse")
                   \o <<"Lo que vienes a rectificar">>
                   \o SiNoVacia(p.claves, "Claves de sanacion y evolucion")
                   \o SiNoVacia(p.preguntas,
                                "Preguntas para trabajar este proceso")
                   \o <<"Aportacion de tu nombre",
                        "la fecha muestra el plan y el nombre el estilo">>
            /\ Len(VinetasTras(v, "Suma basica de la fecha")) = 3
            /\ Len(VinetasTras(v, "Energias que sostienen tu camino de alma")) = 3
            /\ Len(VinetasTras(v, "Arquetipo central segun tu numero de vida")) = 2
            /\ VinetasTras(v, "Tema central de tu tikkun") = Marcadas(p.tema_central)
            /\ LineaTras(v, "Tema central de tu tikkun") = <<>>
            /\ p.patrones # <<>> =>
                  VinetasTras(v, "Patrones que tienden a repetirse")
                      = Marcadas(p.patrones)
            /\ VinetasTras(v, "Lo que vienes a rectificar")
                  = Marcadas(p.rectificacion_frases) \o <<resumen>>
            /\ p.claves # <<>> =>
                  VinetasTras(v, "Claves de sanacion y evolucion")
                      = Marcadas(p.claves)
            /\ p.preguntas # <<>> =>
                  VinetasTras(v, "Preguntas para trabajar este proceso")
                      = Marcadas(p.preguntas)
            /\ Len(VinetasTras(v, "Aportacion de tu nombre")) = 3
            /\ \A k \in 1..(Len(v) - 1) : ~(v[k] = <<>> /\ v[k + 1] = <<>>)
            /\ Len(v) = 31 + Len(p.tema_central) + Len(p.rectificacion_frases)
                          + (IF p.patrones = <<>> THEN 0 ELSE Len(p.patrones) + 2)
                          + (IF p.claves = <<>> THEN 0 ELSE Len(p.claves) + 2)
                          + (IF p.preguntas = <<>> THEN 0
                             ELSE Len(p.preguntas) + 2)

C18_Witness ==
    /\ SinPlantillaPropia
    /\ resultado.tipo = "ok"
    /\ plantilla.patrones = <<>>
    /\ plantilla.claves = <<>>
    /\ plantilla.preguntas = <<>>
    /\ Len(resultado.valor) = 33
    /\ resultado.valor[21] = <<"Tema central de tu tikkun">>
    /\ resultado.valor[24] = <<"Lo que vienes a rectificar">>
    /\ resultado.valor[28] = <<"Aportacion de tu nombre">>

(***************************************************************************)
(* C20: the template lookup tries the life number first and the simple     *)
(* digit only when the life number has no entry.  With the table as the    *)
(* module defines it, which has an entry for every number of               *)
(* {1..9, 11, 22, 33}, the template of every report is the entry of the    *)
(* life number itself: a master life number gets the master's template,    *)
(* never the one of its simple digit, and the template is never the        *)
(* synthesized one.                                                        *)
(***************************************************************************)
C20_PlantillaDelNumeroDeVida ==
    (pc = "return" /\ fn = "generar_informe_kabalista") =>
        LET nv == InfoEntrada.numero_vida
            bs == InfoEntrada.base_simple
            T == PLANTILLAS_TIKKUN
        IN  /\ nv \in DOMAIN T => plantilla = T[nv]
            /\ (nv \notin DOMAIN T /\ bs \in DOMAIN T) => plantilla = T[bs]
            /\ DOMAIN T = (1..9) \cup {11, 22, 33} =>
                  /\ plantilla = PlantillaFuente(nv)
                  /\ nv \in {11, 22, 33} => plantilla # PlantillaFuente(bs)
                  /\ \A seccion \in DOMAIN plantilla :
                        /\ plantilla[seccion] # <<>>
                        /\ \A i \in 1..Len(plantilla[seccion]) :
                              plantilla[seccion][i] = <<seccion, nv, i>>

C20_Witness ==
    /\ pc = "return"
    /\ fn = "generar_informe_kabalista"
    /\ DOMAIN PLANTILLAS_TIKKUN = (1..9) \cup {11, 22, 33}
    /\ InfoEntrada.numero_vida = 11
    /\ InfoEntrada.base_simple = 2
    /\ plantilla = PlantillaFuente(11)
    /\ plantilla # PlantillaFuente(2)

(***************************************************************************)
(* A session of calls.  When a call ends the session may remember it, to   *)
(* compare a later call of the same arguments with it.                     *)
(***************************************************************************)
SesionGenerarInforme ==
    GenerarInforme(NombresPlantilla, {"DD/MM/YYYY"}, {12}, {2000})

SesionAnalizarFecha == AnalizarFecha({"DD/MM/YYYY"}, {12}, {2000})

SesionFin ==
    /\ pc \in {"return", "raise"}
    /\ pc' = "idle"
    /\ fn' = "ninguna"
    /\ entrada' = 0
    /\ numero' = 0
    /\ resultado' = Nada
    /\ plantilla' = Nada
    /\ memo' \in {memo, [fn |-> fn, entrada |-> entrada, resultado |-> resultado]}
    /\ UNCHANGED <<PLANTILLAS_TIKKUN, presentacion>>

NextSesion == SesionGenerarInforme \/ SesionAnalizarFecha \/ SesionFin

SpecSesion == Init /\ [][NextSesion]_vars

(***************************************************************************)
(* C10: the core keeps no state.  After any sequence of calls of           *)
(* generar_informe_kabalista and analizar_fecha_numerologia, failed ones   *)
(* included, the template table is as the module defines it, and a call    *)
(* gives what an earlier call of the same arguments gave.                  *)
(***************************************************************************)
C10_SinEstado ==
    /\ PLANTILLAS_TIKKUN = PlantillasFuente
    /\ (pc # "idle" /\ memo # Nada /\ memo.fn = fn /\ memo.entrada = entrada)
           => memo.resultado = resultado

C10_Witness ==
    /\ pc = "return"
    /\ fn = "generar_informe_kabalista"
    /\ memo # Nada
    /\ memo.fn = fn
    /\ memo.entrada = entrada
    /\ resultado.tipo = "ok"
    /\ memo.resultado = resultado
    /\ PLANTILLAS_TIKKUN = PlantillasFuente

(***************************************************************************)
(* The presentation layer: the window of Arketipo_Grafico.py, whose        *)
(* handlers run one at a time from Tk's main loop, and the console program *)
(* of Arquetipo_2.py, which serves one request and ends.                   *)
(***************************************************************************)
\* the Python class of an error the core raises: each is a ValueError
ClaseDe(e) ==
    IF e.tipo \in {"InvalidInput", "InvalidDate", "InvalidNumber"}
    THEN "ValueError"
    ELSE "Exception"

\* issubclass(clase, base) among the built-in exception classes
EsSubclase(clase, base) == base = clase \/ base = "Exception"

\* a faulty variant of ExceptModoInteractivo: `except TypeError`
ExceptTypeError == "TypeError"

\* `except ValueError as e` of modo_interactivo
ExceptModoInteractivo == "ValueError"

\* `except Exception as e` of on_generar
ExceptOnGenerar == "Exception"

\* the except clause `base` catches the error e
Captura(base, e) == EsSubclase(ClaseDe(e), base)

\* ("%d/%m/%Y", "%Y-%m-%d") of validar_fecha
FormatosValidar ==
    << <<"d", "/", "m", "/", "Y">>, <<"Y", "-", "m", "-", "d">> >>

RECURSIVE ValidarDesde(_, _)
\* the for loop of validar_fecha: the first format that parses, or None
ValidarDesde(texto, k) ==
    IF k > Len(FormatosValidar) THEN Nada
    ELSE LET r == strptime(texto, FormatosValidar[k])
         IN  IF r.tipo = "ok" THEN r.valor ELSE ValidarDesde(texto, k + 1)

validar_fecha(fecha_str) == ValidarDesde(Strip(fecha_str), 1)

\* dt.strftime('%d/%m/%Y') for a year of four digits
strftime(dt) == Escribir("DD/MM/YYYY", dt.day, dt.month, dt.year)

\* ArquetipoGUI._get_fecha_str: the widget gives a date, or None
get_fecha_str(dt) == IF dt = Nada THEN <<>> ELSE strftime(dt)

\* what nombre_var holds when the button is pressed
NombresGUI ==
    {<<>>, <<" ">>, <<"1", "2", "3">>, Maria, <<" ", "a", " ", "Z", " ">>}

\* what the date widget gives: a date of the calendar, or None
FechasWidget ==
    {Nada} \cup
    {dt \in [day : {1, 25, 29}, month : {2, 12}, year : {1990, 2000}] :
        FechaValida(dt.year, dt.month, dt.day)}

Dialogo(funcion, titulo) == [tipo |-> funcion, titulo |-> titulo]

\* self.txt.delete(1.0, tk.END) without effect: a faulty variant of
\* TextDelete
TextDeleteNada(t) == t

\* self.txt.delete(1.0, tk.END): nothing of the display is left
TextDelete(t) == <<>>

\* self.txt.insert(tk.END, s): s comes after what the display holds
TextInsert(t, s) == Append(t, s)

\* ArquetipoGUI.on_generar, the whole handler, with what the two entry
\* widgets may hold
Generar(nombres, fechas) ==
    /\ programa = "Arketipo_Grafico"
    /\ proceso = "corriendo"
    /\ \E nombre_var \in nombres : \E dt \in fechas :
       \E nombre \in {Strip(nombre_var)} :
       \E fecha \in {Strip(get_fecha_str(dt))} :
          /\ entrada' = [nombre |-> Texto(nombre), fecha |-> fecha]
          /\ IF nombre = <<>>
             THEN /\ mensaje' = Dialogo("showwarning", "Falta nombre")
                  /\ resultado' = Nada
                  /\ UNCHANGED <<plantilla, PLANTILLAS_TIKKUN, proceso, txt,
                                 status_var>>
             ELSE IF fecha = <<>> \/ validar_fecha(fecha) = Nada
             THEN /\ mensaje' = Dialogo("showwarning", "Fecha invalida")
                  /\ resultado' = Nada
                  /\ UNCHANGED <<plantilla, PLANTILLAS_TIKKUN, proceso, txt,
                                 status_var>>
             ELSE IF ~importada
             THEN /\ mensaje' = Dialogo("showerror", "Error de importacion")
                  /\ resultado' = Nada
                  /\ UNCHANGED <<plantilla, PLANTILLAS_TIKKUN, proceso, txt,
                                 status_var>>
             ELSE \E r \in {generar_informe_kabalista(Texto(nombre), fecha,
                                                      PLANTILLAS_TIKKUN)} :
                  /\ resultado' = r.resultado
                  /\ plantilla' = r.plantilla
                  /\ PLANTILLAS_TIKKUN' = TablaTrasInforme(PLANTILLAS_TIKKUN, r)
                  /\ IF r.resultado.tipo = "ok"
                     THEN /\ txt' = TextInsert(TextDelete(txt), r.resultado.valor)
                          /\ status_var' = "Informe generado"
                          /\ mensaje' = Nada
                          /\ UNCHANGED proceso
                     ELSE IF Captura(ExceptOnGenerar, r.resultado)
                     THEN /\ mensaje' = Dialogo("showerror", "Error al generar")
                          /\ status_var' = "Error"
                          /\ UNCHANGED <<proceso, txt>>
                     ELSE /\ proceso' = "traceback"
                          /\ status_var' = "Generando informe..."
                          /\ UNCHANGED <<mensaje, txt>>
    /\ fn' = "on_generar"
    /\ UNCHANGED <<pc, numero, memo, programa, importada, stdout, portapapeles,
                   archivo>>

\* the button "Generar informe" of the window
OnGenerar == Generar(NombresGUI, FechasWidget)

\* what the user types at the two prompts of modo_interactivo
NombresConsola == {<<>>, <<"1", "2", "3">>, Maria}

FechasConsola ==
    {Escribir(forma, d, m, 1990) :
        forma \in {"DD/MM/YYYY", "YYYY-MM-DD", "DD-MM-YYYY", ""},
        d \in {25, 31}, m \in {2, 12}}

Imprime(que, valor) == [print |-> que, valor |-> valor]

\* the prints of mostrar_resultado around the report
Resultado(informe) ==
    <<Imprime("banner", "======"),
      Imprime("titulo", "Informe de Arquetipo y Tikkun (Kabala)"),
      Imprime("banner", "======"),
      Imprime("informe", informe),
      Imprime("banner", "======")>>

\* modo_interactivo, the whole run of the console program
ModoInteractivo ==
    /\ programa = "Arquetipo_2"
    /\ proceso = "corriendo"
    /\ \E nombre \in NombresConsola : \E fecha_nacimiento \in FechasConsola :
       \E r \in {generar_informe_kabalista(Texto(nombre), fecha_nacimiento,
                                           PLANTILLAS_TIKKUN)} :
          LET cabecera ==
                  <<Imprime("titulo", "Calculo de arquetipo numerologico kabalista"),
                    Imprime("banner", "------"),
                    Imprime("input", "Ingresa tu nombre completo: "),
                    Imprime("input", "Ingresa tu fecha de nacimiento: ")>>
          IN  /\ entrada' = [nombre |-> Texto(nombre), fecha |-> fecha_nacimiento]
              /\ resultado' = r.resultado
              /\ plantilla' = r.plantilla
              /\ PLANTILLAS_TIKKUN' = TablaTrasInforme(PLANTILLAS_TIKKUN, r)
              /\ IF r.resultado.tipo = "ok"
                 THEN /\ stdout' = stdout \o cabecera \o Resultado(r.resultado.valor)
                      /\ proceso' = "terminado"
                 ELSE IF Captura(ExceptModoInteractivo, r.resultado)
                 THEN /\ stdout' = stdout \o cabecera
                                       \o <<Imprime("Error", r.resultado.tipo)>>
                      /\ proceso' = "terminado"
                 ELSE /\ stdout' = stdout \o cabecera
                      /\ proceso' = "traceback"
    /\ fn' = "modo_interactivo"
    /\ UNCHANGED <<pc, numero, memo, programa, importada, txt, status_var,
                   mensaje, portapapeles, archivo>>

\* one of the two scripts was started; the window shows "Listo"
InitPresentacion ==
    /\ pc = "idle"
    /\ fn = "ninguna"
    /\ entrada = 0
    /\ numero = 0
    /\ resultado = Nada
    /\ plantilla = Nada
    /\ PLANTILLAS_TIKKUN = PlantillasFuente
    /\ memo = Nada
    /\ \/ /\ programa = "Arketipo_Grafico"
          /\ importada \in BOOLEAN
          /\ status_var = "Listo"
       \/ /\ programa = "Arquetipo_2"
          /\ importada = TRUE
          /\ status_var = "ninguno"
    /\ proceso = "corriendo"
    /\ txt = <<>>
    /\ mensaje = Nada
    /\ stdout = <<>>
    /\ portapapeles = Nada
    /\ archivo = Nada

NextPresentacion == OnGenerar \/ ModoInteractivo

SpecPresentacion == InitPresentacion /\ [][NextPresentacion]_vars

\* the last request reached the core, and the core raised
ErrorDelNucleo ==
    /\ fn \in {"on_generar", "modo_interactivo"}
    /\ resultado.tipo \in {"InvalidInput", "InvalidDate", "InvalidNumber"}

(***************************************************************************)
(* C14, as claimed: in the window and in the console program an error of   *)
(* the core is caught and shown as a message, and the process keeps        *)
(* running and can serve the next request.                                 *)
(***************************************************************************)
C14_SigueSirviendo ==
    ErrorDelNucleo =>
        /\ \/ mensaje = Dialogo("showerror", "Error al generar")
           \/ (stdout # <<>> /\ stdout[Len(stdout)].print = "Error")
        /\ proceso = "corriendo"

(***************************************************************************)
(* C14, amended: no error of the core escapes a handler.  In the window    *)
(* on_generar shows it in an error dialog, sets the status to "Error" and  *)
(* returns to the main loop, which can serve the next request.  The        *)
(* console program prints "Error: ..." and then ends normally: it serves   *)
(* one request per run, and there is no next request.                      *)
(***************************************************************************)
C14_ErrorCapturado ==
    /\ proceso # "traceback"
    /\ (programa = "Arketipo_Grafico" /\ ErrorDelNucleo) =>
          /\ mensaje = Dialogo("showerror", "Error al generar")
          /\ status_var = "Error"
          /\ proceso = "corriendo"
          /\ ENABLED OnGenerar
    /\ (programa = "Arquetipo_2" /\ ErrorDelNucleo) =>
          /\ stdout[Len(stdout)] = Imprime("Error", resultado.tipo)
          /\ proceso = "terminado"
          /\ ~ENABLED ModoInteractivo

C14_Witness ==
    /\ programa = "Arquetipo_2"
    /\ fn = "modo_interactivo"
    /\ entrada.fecha = <<"3", "1", "/", "0", "2", "/", "1", "9", "9", "0">>
    /\ resultado = Err("InvalidDate")
    /\ stdout[Len(stdout)] = Imprime("Error", "InvalidDate")
    /\ proceso = "terminado"

(***************************************************************************)
(* The window alone, with its four buttons.  A text is the sequence of its *)
(* lines, as a report is; the empty text is one empty line.                *)
(***************************************************************************)
TextoVacio == << <<>> >>

\* the text a followed by the text b: the last line of a goes on with the
\* first line of b
UnirDos(a, b) ==
    SubSeq(a, 1, Len(a) - 1) \o <<a[Len(a)] \o b[1]>> \o Tail(b)

RECURSIVE Unir(_)
\* the text the display shows once the texts of t were inserted at its end
Unir(t) ==
    IF t = <<>> THEN TextoVacio
    ELSE UnirDos(Unir(SubSeq(t, 1, Len(t) - 1)), t[Len(t)])

\* self.txt.get(1.0, tk.END): the text of the display and the newline that
\* Tk keeps at the end of a Text widget
TextGet(t) == UnirDos(Unir(t), << <<>>, <<>> >>)

\* str.strip() of a text whose first and last written lines neither start
\* nor end with a blank: the empty lines at both ends go
StripLineas(c) ==
    LET llenas == {i \in 1..Len(c) : c[i] # <<>>}
    IN  IF llenas = {} THEN TextoVacio
        ELSE SubSeq(c, CHOOSE i \in llenas : \A j \in llenas : i <= j,
                       CHOOSE i \in llenas : \A j \in llenas : j <= i)

\* ArquetipoGUI.on_limpiar, the whole handler
OnLimpiar ==
    /\ programa = "Arketipo_Grafico"
    /\ proceso = "corriendo"
    /\ txt' = TextDelete(txt)
    /\ status_var' = "Listo"
    /\ mensaje' = Nada
    /\ fn' = "on_limpiar"
    /\ UNCHANGED <<pc, entrada, numero, resultado, plantilla, PLANTILLAS_TIKKUN,
                   memo, programa, importada, proceso, stdout, portapapeles,
                   archivo>>

\* what the clipboard holds after clipboard_append(c) on an empty clipboard
EnPortapapeles(c) == [tipo |-> "texto", contenido |-> c]

\* ArquetipoGUI.on_copiar, the whole handler; a call of the clipboard may
\* raise TclError
OnCopiar ==
    /\ programa = "Arketipo_Grafico"
    /\ proceso = "corriendo"
    /\ \E contenido \in {StripLineas(TextGet(txt))} :
          IF contenido = TextoVacio
          THEN /\ mensaje' = Nada
               /\ UNCHANGED <<status_var, portapapeles>>
          ELSE \E falla \in {"ninguna", "clipboard_clear", "clipboard_append"} :
               IF falla = "ninguna"
               THEN /\ portapapeles' = EnPortapapeles(contenido)
                    /\ mensaje' = Dialogo("showinfo", "Portapapeles")
                    /\ status_var' = "Copiado al portapapeles"
               ELSE /\ portapapeles' =
                           IF falla = "clipboard_clear" THEN portapapeles
                           ELSE Nada
                    /\ mensaje' = Dialogo("showerror", "Error")
                    /\ status_var' = "Error copiar"
    /\ fn' = "on_copiar"
    /\ UNCHANGED <<pc, entrada, numero, resultado, plantilla, PLANTILLAS_TIKKUN,
                   memo, programa, importada, proceso, txt, stdout, archivo>>

\* what asksaveasfilename returns: "" when the dialog is cancelled
RutasDialogo == {"", "informe.txt"}

\* ArquetipoGUI.on_guardar, the whole handler; open() or f.write() may raise
\* OSError, the second after the file was truncated
OnGuardar ==
    /\ programa = "Arketipo_Grafico"
    /\ proceso = "corriendo"
    /\ \E contenido \in {StripLineas(TextGet(txt))} :
          IF contenido = TextoVacio
          THEN /\ mensaje' = Dialogo("showinfo", "Sin contenido")
               /\ UNCHANGED <<status_var, archivo>>
          ELSE \E ruta \in RutasDialogo :
               IF ruta = ""
               THEN /\ mensaje' = Nada
                    /\ UNCHANGED <<status_var, archivo>>
               ELSE \E falla \in {"ninguna", "open", "write"} :
                    IF falla = "ninguna"
                    THEN /\ archivo' = [ruta |-> ruta, contenido |-> contenido]
                         /\ mensaje' = Dialogo("showinfo", "Guardado")
                         /\ status_var' = <<"Guardado: ", ruta>>
                    ELSE /\ archivo' =
                                IF falla = "open" THEN archivo
                                ELSE [ruta |-> ruta, contenido |-> TextoVacio]
                         /\ mensaje' = Dialogo("showerror", "Error al guardar")
                         /\ status_var' = "Error al guardar"
    /\ fn' = "on_guardar"
    /\ UNCHANGED <<pc, entrada, numero, resultado, plantilla, PLANTILLAS_TIKKUN,
                   memo, programa, importada, proceso, txt, stdout, portapapeles>>

\* what nombre_var holds when "Generar informe" is pressed
NombresVentana == {<<>>, <<"1", "2", "3">>, Maria}

\* what the date widget gives
FechasVentana ==
    {Nada, [day |-> 25, month |-> 12, year |-> 1990],
           [day |-> 29, month |-> 2, year |-> 2000]}

VentanaGenerar == Generar(NombresVentana, FechasVentana)

\* the window was opened: the display is empty and the status is "Listo"
InitVentana ==
    /\ InitPresentacion
    /\ programa = "Arketipo_Grafico"

NextVentana == VentanaGenerar \/ OnLimpiar \/ OnCopiar \/ OnGuardar

SpecVentana == InitVentana /\ [][NextVentana]_vars

\* the text v is one report from its first line to its last
EsInformeCompleto(v) ==
    /\ v[1] # <<>>
    /\ v[Len(v)] = <<"la fecha muestra el plan y el nombre el estilo">>
    /\ \A i \in 1..Len(v) :
          (v[i] # <<>> /\ v[i][1] = "Voy directo al grano usando tu fecha")
              <=> i = 1

(***************************************************************************)
(* C22: after any sequence of generate, clear, copy and save the display   *)
(* holds nothing or exactly one complete report, the one of the most       *)
(* recent successful generate since the last clear.  Every step of the     *)
(* window keeps it so: a successful generate leaves exactly its own report *)
(* in the display, whatever was there; a generate that is rejected or that *)
(* fails in generar_informe_kabalista leaves the display as it was; clear  *)
(* empties it; copy and save do not change it.                             *)
(***************************************************************************)
C22_UnSoloInforme ==
    [][/\ Len(txt') <= 1
       /\ txt' # <<>> => EsInformeCompleto(Unir(txt'))
       /\ (fn' = "on_generar" /\ resultado'.tipo = "ok")
              => txt' = <<resultado'.valor>>
       /\ (fn' = "on_generar" /\ resultado'.tipo # "ok") => txt' = txt
       /\ fn' = "on_limpiar" => txt' = <<>>
       /\ fn' \in {"on_copiar", "on_guardar"} => txt' = txt]_vars

\* a generate failed in the core after a report was shown and copied: the
\* display still holds that one report
C22_Witness ==
    /\ fn = "on_generar"
    /\ entrada.nombre = Texto(<<"1", "2", "3">>)
    /\ resultado = Err("InvalidInput")
    /\ mensaje = Dialogo("showerror", "Error al generar")
    /\ Len(txt) = 1
    /\ EsInformeCompleto(txt[1])
    /\ portapapeles = EnPortapapeles(txt[1])

=============================================================================
